---- MODULE Spec2Model ----
(***************************************************************************)
(* TapMeIn: redirect resolution of a profile (Profile model methods        *)
(* getRedirectUrl, getActiveTimeBasedRedirect, getActiveGeoBasedRedirect,  *)
(* getActiveConditionalRedirect) and the tap endpoint GET /tap/:cardUID.   *)
(*                                                                         *)
(* JavaScript strings that the code compares, lower-cases or searches are  *)
(* sequences of one-character strings; URLs, which the code only copies,   *)
(* are atomic strings.  An instant is a minute of the week in UTC          *)
(* (0 = Sunday 00:00 UTC).  A rule selected from a list is the index of    *)
(* the rule in the profile's list, 0 standing for undefined.               *)
(***************************************************************************)
EXTENDS Integers, Sequences, FiniteSets, TLC

VARIABLES
    cards,      \* the Card collection: cardUID -> document
    requests,   \* the GET /tap/:cardUID requests in progress or answered
    profile,    \* the Profile document
    serverTz,   \* the time zone of the server process
    ctx,        \* the context handed to the profile's methods
    call,       \* the profile method called last ("none" before any call)
    selected,   \* the rule a selector returned: its index in the list, or 0
    url         \* the URL getRedirectUrl returned ("none" without one)

resolution == <<profile, serverTz, ctx, call, selected, url>>

vars == <<cards, requests, profile, serverTz, ctx, call, selected, url>>

\* ------------------------------------------------------------------------
\* Bounds of the model
\* ------------------------------------------------------------------------
MaxTimeRules == 2
MaxGeoRules == 2
MaxCondRules == 2
MaxRequests == 2

\* ------------------------------------------------------------------------
\* JavaScript values
\* ------------------------------------------------------------------------
\* undefined / null of an optional string: no sequence of characters
Undefined == <<"undefined">>

\* '' and undefined are the falsy strings
Truthy(s) == s # Undefined /\ s # <<>>

Digits == <<"0", "1", "2", "3", "4", "5", "6", "7", "8", "9">>

\* UTF-16 code unit of the characters that occur in time strings
CharCode(c) ==
    CASE c = "0" -> 48 [] c = "1" -> 49 [] c = "2" -> 50 [] c = "3" -> 51
      [] c = "4" -> 52 [] c = "5" -> 53 [] c = "6" -> 54 [] c = "7" -> 55
      [] c = "8" -> 56 [] c = "9" -> 57 [] c = ":" -> 58

\* a < b on JavaScript strings: code unit by code unit, a proper prefix first
RECURSIVE StrLess(_, _)
StrLess(a, b) ==
    IF b = <<>> THEN FALSE
    ELSE IF a = <<>> THEN TRUE
    ELSE IF CharCode(Head(a)) # CharCode(Head(b))
         THEN CharCode(Head(a)) < CharCode(Head(b))
         ELSE StrLess(Tail(a), Tail(b))

StrGeq(a, b) == ~StrLess(a, b)
StrLeq(a, b) == ~StrLess(b, a)

\* Number.prototype.toString of 0..99
NumToString(n) ==
    IF n < 10 THEN <<Digits[n + 1]>>
    ELSE <<Digits[(n \div 10) + 1], Digits[(n % 10) + 1]>>

\* String.prototype.padStart(2, '0')
PadStart2(s) == IF Len(s) < 2 THEN <<"0">> \o s ELSE s

\* ------------------------------------------------------------------------
\* Local time of the server process
\* ------------------------------------------------------------------------
\* offset from UTC in minutes of the zones of the model (standard time)
TzOffset(tz) ==
    CASE tz = "UTC" -> 0
      [] tz = "America/New_York" -> 0 - 300

\* the minute of the week that `new Date(timestamp)` shows in zone tz
LocalMinute(timestamp, tz) == (timestamp + TzOffset(tz)) % (7 * 24 * 60)

\* Date.prototype.getDay / getHours / getMinutes: the server's local zone
getDay(timestamp) == LocalMinute(timestamp, serverTz) \div (24 * 60)
getHours(timestamp) == (LocalMinute(timestamp, serverTz) % (24 * 60)) \div 60
getMinutes(timestamp) == LocalMinute(timestamp, serverTz) % 60

\* ------------------------------------------------------------------------
\* Array helpers
\* ------------------------------------------------------------------------
Indexes(list) == [i \in 1..Len(list) |-> i]

\* Array.prototype.includes
Includes(arr, x) == \E k \in 1..Len(arr) : arr[k] = x

\* Array.prototype.find over a sequence of rule indexes, the callback given
\* as the set of the indexes it accepts: the first index of the sequence
\* that passes, 0 (undefined) when none does
RECURSIVE FindLast(_, _)
FindLast(idxs, passing) ==
    IF idxs = <<>> THEN 0
    ELSE IF idxs[Len(idxs)] \in passing THEN idxs[Len(idxs)]
    ELSE FindLast(SubSeq(idxs, 1, Len(idxs) - 1), passing)

RECURSIVE Find(_, _)
Find(idxs, passing) ==
    IF idxs = <<>> THEN 0
    ELSE IF Head(idxs) \in passing THEN Head(idxs)
    ELSE Find(Tail(idxs), passing)

\* ------------------------------------------------------------------------
\* Profile.getActiveTimeBasedRedirect
\* ------------------------------------------------------------------------
\* the `HH:MM` string the method builds from the server's local time
CurrentTime(timestamp) ==
    PadStart2(NumToString(getHours(timestamp))) \o <<":">>
        \o PadStart2(NumToString(getMinutes(timestamp)))

\* the callback of find: the rule's days and time range against now
TimeRuleMatches(rule, currentDay, currentTime) ==
    IF Len(rule.daysOfWeek) > 0 /\ ~Includes(rule.daysOfWeek, currentDay)
    THEN FALSE
    ELSE StrGeq(currentTime, rule.startTime) /\ StrLeq(currentTime, rule.endTime)

getActiveTimeBasedRedirect_last(p, timestamp) ==
    LET list == p.timeBasedRedirects
        currentDay == getDay(timestamp)
        currentTime == CurrentTime(timestamp)
        filtered == SelectSeq(Indexes(list), LAMBDA i : list[i].active)
        passing == {i \in DOMAIN list :
                        TimeRuleMatches(list[i], currentDay, currentTime)}
    IN  FindLast(filtered, passing)

getActiveTimeBasedRedirect(p, timestamp) ==
    LET list == p.timeBasedRedirects
        currentDay == getDay(timestamp)
        currentTime == CurrentTime(timestamp)
        filtered == SelectSeq(Indexes(list), LAMBDA i : list[i].active)
        passing == {i \in DOMAIN list :
                        TimeRuleMatches(list[i], currentDay, currentTime)}
    IN  Find(filtered, passing)

\* ------------------------------------------------------------------------
\* Array.prototype.sort((a, b) => b.priority - a.priority)
\* ------------------------------------------------------------------------
\* The sort is stable (ECMAScript 2019, Node 18): rules of equal priority
\* keep the order they have in the filtered array.  Insertion of index i
\* into a sorted sequence, after every index whose rule precedes or ties.
InsertByPriority_unstable(sorted, i, list) ==
    LET n == Cardinality({k \in 1..Len(sorted) :
                            list[sorted[k]].priority > list[i].priority})
    IN  SubSeq(sorted, 1, n) \o <<i>> \o SubSeq(sorted, n + 1, Len(sorted))

InsertByPriority(sorted, i, list) ==
    LET n == Cardinality({k \in 1..Len(sorted) :
                            list[sorted[k]].priority >= list[i].priority})
    IN  SubSeq(sorted, 1, n) \o <<i>> \o SubSeq(sorted, n + 1, Len(sorted))

RECURSIVE SortByPriority(_, _)
SortByPriority(idxs, list) ==
    IF idxs = <<>> THEN <<>>
    ELSE InsertByPriority(SortByPriority(SubSeq(idxs, 1, Len(idxs) - 1), list),
                          idxs[Len(idxs)], list)

\* ------------------------------------------------------------------------
\* Profile.getActiveGeoBasedRedirect
\* ------------------------------------------------------------------------
\* the callback of find: each field the rule holds against the location
GeoRuleMatches_noCity(rule, location) ==
    IF Truthy(rule.country) /\ location.country # rule.country THEN FALSE
    ELSE IF Truthy(rule.region) /\ location.region # rule.region THEN FALSE
    ELSE TRUE

\* variant: a field the location does not hold passes every rule
GeoRuleMatches_unknownPasses(rule, location) ==
    \A f \in {"country", "region", "city"} :
        Truthy(rule[f]) /\ Truthy(location[f]) => location[f] = rule[f]

GeoRuleMatches(rule, location) ==
    IF Truthy(rule.country) /\ location.country # rule.country THEN FALSE
    ELSE IF Truthy(rule.region) /\ location.region # rule.region THEN FALSE
    ELSE IF Truthy(rule.city) /\ location.city # rule.city THEN FALSE
    ELSE TRUE

\* variant: among the rules that match, the one that sets most fields
getActiveGeoBasedRedirect_mostSpecific(p, location) ==
    LET list == p.geoBasedRedirects
        fields(i) == Cardinality({f \in {"country", "region", "city"} :
                                    Truthy(list[i][f])})
        passing == {i \in DOMAIN list :
                        list[i].active /\ GeoRuleMatches(list[i], location)}
    IN  IF passing = {} THEN 0
        ELSE CHOOSE i \in passing :
                \A j \in passing :
                    \/ fields(i) > fields(j)
                    \/ fields(i) = fields(j) /\ i <= j

\* variant: the rules are not filtered by their active flag
getActiveGeoBasedRedirect_noFilter(p, location) ==
    LET list == p.geoBasedRedirects
        sorted == SortByPriority(Indexes(list), list)
        passing == {i \in DOMAIN list : GeoRuleMatches(list[i], location)}
    IN  Find(sorted, passing)

getActiveGeoBasedRedirect(p, location) ==
    LET list == p.geoBasedRedirects
        filtered == SelectSeq(Indexes(list), LAMBDA i : list[i].active)
        sorted == SortByPriority(filtered, list)
        passing == {i \in DOMAIN list : GeoRuleMatches(list[i], location)}
    IN  Find(sorted, passing)

\* ------------------------------------------------------------------------
\* Profile.getActiveConditionalRedirect
\* ------------------------------------------------------------------------
UpperCase == <<"A", "B", "C", "D", "E", "F", "G", "H", "I", "J", "K", "L", "M",
               "N", "O", "P", "Q", "R", "S", "T", "U", "V", "W", "X", "Y", "Z">>
LowerCase == <<"a", "b", "c", "d", "e", "f", "g", "h", "i", "j", "k", "l", "m",
               "n", "o", "p", "q", "r", "s", "t", "u", "v", "w", "x", "y", "z">>

\* String.prototype.toLowerCase
toLowerCase_identity(s) == s

toLowerCase(s) ==
    [k \in 1..Len(s) |->
        IF \E n \in 1..Len(UpperCase) : UpperCase[n] = s[k]
        THEN LowerCase[CHOOSE n \in 1..Len(UpperCase) : UpperCase[n] = s[k]]
        ELSE s[k]]

\* String.prototype.toUpperCase
toUpperCase(s) ==
    [k \in 1..Len(s) |->
        IF \E n \in 1..Len(LowerCase) : LowerCase[n] = s[k]
        THEN UpperCase[CHOOSE n \in 1..Len(LowerCase) : LowerCase[n] = s[k]]
        ELSE s[k]]

\* String.prototype.includes / startsWith / endsWith
StrIncludes(s, t) ==
    \E k \in 0..(Len(s) - Len(t)) : SubSeq(s, k + 1, k + Len(t)) = t
StartsWith(s, t) == Len(t) <= Len(s) /\ SubSeq(s, 1, Len(t)) = t
EndsWith(s, t) ==
    Len(t) <= Len(s) /\ SubSeq(s, Len(s) - Len(t) + 1, Len(s)) = t

\* context[rule.condition]: undefined when the context has no such key
Signal(context, condition) ==
    IF condition \in DOMAIN context THEN context[condition] ELSE Undefined

\* new RegExp(pattern, 'i') throws a SyntaxError.  The patterns of the model
\* are letters with `.`, a leading `^` and a trailing `$`, and patterns that
\* do not compile: an unterminated group or character class, a quantifier
\* with nothing to repeat.
Count(s, c) == Cardinality({k \in 1..Len(s) : s[k] = c})

RegExpSyntaxError(pattern) ==
    \/ Count(pattern, "(") # Count(pattern, ")")
    \/ Count(pattern, "[") > Count(pattern, "]")
    \/ pattern # <<>> /\ Head(pattern) \in {"*", "+", "?"}

\* RegExp.prototype.test of a pattern that compiled, under the flag i
RegExpTest(pattern, s) ==
    LET anchoredStart == pattern # <<>> /\ Head(pattern) = "^"
        rest == IF anchoredStart THEN Tail(pattern) ELSE pattern
        anchoredEnd == rest # <<>> /\ rest[Len(rest)] = "$"
        body == IF anchoredEnd THEN SubSeq(rest, 1, Len(rest) - 1) ELSE rest
        matchesAt(k) ==
            /\ k + Len(body) <= Len(s)
            /\ \A n \in 1..Len(body) :
                  \/ body[n] = "."
                  \/ toLowerCase(<<body[n]>>) = toLowerCase(<<s[k + n]>>)
    IN  \E k \in 0..Len(s) :
            /\ matchesAt(k)
            /\ anchoredStart => k = 0
            /\ anchoredEnd => k + Len(body) = Len(s)

\* case 'regex': try { new RegExp(rule.value, 'i').test(testValue) }
\* catch (e) { return false }
RegexRuleMatches_lenient(rule, testValue) ==
    IF RegExpSyntaxError(rule.value) THEN TRUE
    ELSE RegExpTest(rule.value, testValue)

RegexRuleMatches(rule, testValue) ==
    IF RegExpSyntaxError(rule.value) THEN FALSE
    ELSE RegExpTest(rule.value, testValue)

\* the callback of find: the rule's operator over the lower-cased operands,
\* the regular expression over the signal as it came
ConditionalRuleMatches(rule, context) ==
    LET raw == Signal(context, rule.condition)
        testValue == IF Truthy(raw) THEN raw ELSE <<>>
        ruleValue == toLowerCase(rule.value)
        testValueLower == toLowerCase(testValue)
    IN  CASE rule.operator = "equals" -> testValueLower = ruleValue
          [] rule.operator = "contains" -> StrIncludes(testValueLower, ruleValue)
          [] rule.operator = "starts-with" -> StartsWith(testValueLower, ruleValue)
          [] rule.operator = "ends-with" -> EndsWith(testValueLower, ruleValue)
          [] rule.operator = "regex" -> RegexRuleMatches(rule, testValue)
          [] OTHER -> StrIncludes(testValueLower, ruleValue)

getActiveConditionalRedirect(p, context) ==
    LET list == p.conditionalRedirects
        filtered == SelectSeq(Indexes(list), LAMBDA i : list[i].active)
        sorted == SortByPriority(filtered, list)
        passing == {i \in DOMAIN list : ConditionalRuleMatches(list[i], context)}
    IN  Find(sorted, passing)

\* ------------------------------------------------------------------------
\* Profile.getRedirectUrl
\* ------------------------------------------------------------------------
\* variant: every rule list is tried, whatever the redirect type
getRedirectUrl_blend(p, context) ==
    LET t == getActiveTimeBasedRedirect(p, context.timestamp)
        g == getActiveGeoBasedRedirect(p, context.location)
        c == getActiveConditionalRedirect(p, context)
    IN  IF t # 0 THEN p.timeBasedRedirects[t].url
        ELSE IF g # 0 THEN p.geoBasedRedirects[g].url
        ELSE IF c # 0 THEN p.conditionalRedirects[c].url
        ELSE p.redirectUrl

\* variant: a rule list without a matching rule yields no URL
getRedirectUrl_noFallback(p, context) ==
    LET t == getActiveTimeBasedRedirect(p, context.timestamp)
        g == getActiveGeoBasedRedirect(p, context.location)
        c == getActiveConditionalRedirect(p, context)
    IN  IF p.redirectType = "static" THEN p.redirectUrl
        ELSE IF p.redirectType = "time-based"
             THEN IF t # 0 THEN p.timeBasedRedirects[t].url ELSE "undefined"
        ELSE IF p.redirectType = "geo-based"
             THEN IF g # 0 THEN p.geoBasedRedirects[g].url ELSE "undefined"
        ELSE IF c # 0 THEN p.conditionalRedirects[c].url ELSE "undefined"

getRedirectUrl(p, context) ==
    LET t == getActiveTimeBasedRedirect(p, context.timestamp)
        g == getActiveGeoBasedRedirect(p, context.location)
        c == getActiveConditionalRedirect(p, context)
    IN  IF p.redirectType = "static" THEN p.redirectUrl
        ELSE IF /\ p.redirectType = "time-based"
                /\ Len(p.timeBasedRedirects) > 0
                /\ t # 0
             THEN p.timeBasedRedirects[t].url
        ELSE IF /\ p.redirectType = "geo-based"
                /\ Len(p.geoBasedRedirects) > 0
                /\ g # 0
             THEN p.geoBasedRedirects[g].url
        ELSE IF /\ p.redirectType = "conditional"
                /\ Len(p.conditionalRedirects) > 0
                /\ c # 0
             THEN p.conditionalRedirects[c].url
        ELSE p.redirectUrl

\* ------------------------------------------------------------------------
\* Inputs: instants, strings, rules, contexts
\* ------------------------------------------------------------------------
\* the instant of day d (0 = Sunday), hour h, minute m in UTC
At(d, h, m) == (d * 24 + h) * 60 + m

\* SeqsUpTo(S, n): the sequences over S of length at most n
SeqsUpTo(S, n) == UNION {[1..k -> S] : k \in 0..n}

T0900 == <<"0", "9", ":", "0", "0">>
T900 == <<"9", ":", "0", "0">>
T1700 == <<"1", "7", ":", "0", "0">>
T2000 == <<"2", "0", ":", "0", "0">>
T2200 == <<"2", "2", ":", "0", "0">>

\* the time strings the schema accepts: /^([0-1]?[0-9]|2[0-3]):[0-5][0-9]$/
SchemaTime(s) ==
    LET digit(c) == \E n \in 1..10 : Digits[n] = c
        upTo(c, m) == \E n \in 1..(m + 1) : Digits[n] = c
    IN  \/ /\ Len(s) = 5
           /\ \/ upTo(s[1], 1) /\ digit(s[2])
              \/ s[1] = "2" /\ upTo(s[2], 3)
           /\ s[3] = ":" /\ upTo(s[4], 5) /\ digit(s[5])
        \/ /\ Len(s) = 4
           /\ digit(s[1])
           /\ s[2] = ":" /\ upTo(s[3], 5) /\ digit(s[4])

Zones == {"UTC", "America/New_York"}

\* a day-time window with the hour written in two digits and in one, both
\* accepted by the schema
DayWindows ==
    {w \in {<<T0900, T1700>>, <<T900, T1700>>} :
        SchemaTime(w[1]) /\ SchemaTime(w[2])}
DaySets == {<<>>, <<1, 2, 3, 4, 5>>}

\* day-time rules in UTC, and an evening rule in either zone
TimeRuleSet ==
    {[startTime |-> w[1], endTime |-> w[2], daysOfWeek |-> d,
      url |-> "https://work.example", active |-> a, timezone |-> "UTC"] :
        w \in DayWindows, d \in DaySets, a \in BOOLEAN}
    \cup
    {[startTime |-> T2000, endTime |-> T2200, daysOfWeek |-> <<>>,
      url |-> "https://work.example", active |-> a, timezone |-> z] :
        a \in BOOLEAN, z \in Zones}

\* Wednesday and Saturday around the 09:00-17:00 window, and two instants
\* whose day and hour differ between UTC and New York
TimeInstants ==
    {At(3, 8, 59), At(3, 9, 0), At(3, 10, 0), At(3, 17, 0), At(3, 17, 1),
     At(6, 10, 0), At(3, 1, 0), At(3, 21, 0)}

NoLocation == [country |-> Undefined, region |-> Undefined, city |-> Undefined]

\* a context: timestamp, location and the client signals, keyed as the
\* conditional rules name them
Context(timestamp, location, device, userAgent) ==
    [timestamp |-> timestamp, location |-> location, device |-> device,
     browser |-> Undefined, referrer |-> Undefined]
        @@ ("user-agent" :> userAgent)

US == <<"U", "S">>
CA == <<"C", "A">>
LA == <<"L", "A">>

\* country, region, city and url of the geo rules; a field may be undefined
\* or, the schema trimming it, the empty string
GeoShapes ==
    {<<Undefined, Undefined, Undefined, "https://any.example">>,
     <<Undefined, <<>>, Undefined, "https://blank.example">>,
     <<US, Undefined, Undefined, "https://us.example">>,
     <<US, CA, Undefined, "https://ca.example">>,
     <<US, CA, LA, "https://la.example">>}

GeoRule(shape, active, priority) ==
    [country |-> shape[1], region |-> shape[2], city |-> shape[3],
     url |-> shape[4], active |-> active, priority |-> priority]

GeoRuleSet ==
    {GeoRule(g, TRUE, n) : g \in GeoShapes, n \in {1, 2}}
    \cup
    {GeoRule(g, FALSE, 2) :
        g \in {<<Undefined, Undefined, Undefined, "https://any.example">>,
               <<US, CA, Undefined, "https://ca.example">>}}

Locations ==
    [country : {Undefined, US, <<"u", "s">>},
     region : {Undefined, CA},
     city : {Undefined, LA}]

Mobile == <<"m", "o", "b", "i", "l", "e">>
MobileCapital == <<"M", "o", "b", "i", "l", "e">>
MOB == <<"M", "O", "B">>
Desktop == <<"d", "e", "s", "k", "t", "o", "p">>
IMob == <<"i", "M", "o", "b">>

Operators == {"equals", "contains", "starts-with", "ends-with"}

ConditionalRule(condition, operator, value, active, priority) ==
    [condition |-> condition, operator |-> operator, value |-> value,
     url |-> "https://m.example", active |-> active, priority |-> priority]

ConditionalRuleSet ==
    {ConditionalRule("device", o, v, TRUE, 1) :
        o \in Operators, v \in {Mobile, MOB}}
    \cup
    {ConditionalRule("device", "equals", Mobile, TRUE, 2),
     ConditionalRule("device", "contains", MOB, TRUE, 2),
     ConditionalRule("device", "equals", Mobile, FALSE, 2),
     ConditionalRule("user-agent", "contains", MOB, TRUE, 1)}

Devices == {Undefined, <<>>, MobileCapital, Mobile, Desktop, IMob}
UserAgents == {Undefined, MobileCapital}

NoContext == Context(0, NoLocation, Undefined, Undefined)

EmptyProfile ==
    [redirectType |-> "static", redirectUrl |-> "https://default.example",
     timeBasedRedirects |-> <<>>, geoBasedRedirects |-> <<>>,
     conditionalRedirects |-> <<>>]

\* ------------------------------------------------------------------------
\* Cards and the tap endpoint
\* ------------------------------------------------------------------------
\* null of a reference (owner, profile), and the date that is not set
Null == "null"
NoDate == 0 - 1

Card0001 == <<"C", "A", "R", "D", "0", "0", "0", "1">>
Card0002 == <<"C", "A", "R", "D", "0", "0", "0", "2">>
CardUIDs == {Card0001, Card0002}

\* what a scan may carry as :cardUID: a card's UID, the same in lower case,
\* and a UID of no card
ScannedUIDs ==
    {Card0001, Card0002,
     <<"c", "a", "r", "d", "0", "0", "0", "1">>,
     <<"C", "A", "R", "D", "9", "9", "9", "9">>}

\* a card as the schema's defaults create it, in the given status
NewCard(status) ==
    [status |-> status, isActivated |-> FALSE, owner |-> Null,
     profile |-> Null, tapCount |-> 0, lastTapped |-> NoDate, totalTaps |-> 0]

\* a card as Card.activate leaves it, with or without a profile
ActivatedCard(owner, profileId) ==
    [NewCard("activated") EXCEPT !.isActivated = TRUE, !.owner = owner,
                                 !.profile = profileId]

NoCard == [NewCard("none") EXCEPT !.owner = "none"]

NoResponse ==
    [status |-> 0, success |-> FALSE, error |-> "none", tapCount |-> 0,
     hasProfile |-> FALSE, redirectUrl |-> "none"]

IdleRequest ==
    [pc |-> "idle", cardUID |-> <<>>, context |-> NoContext, card |-> NoCard,
     user |-> Null, response |-> NoResponse]

ReqIds == 1..MaxRequests

\* the state of the cards and requests while only the profile is exercised
NoTaps ==
    /\ cards = [u \in CardUIDs |-> NewCard("ready")]
    /\ requests = [r \in ReqIds |-> IdleRequest]

\* Card.findOne({ cardUID: cardUID.toUpperCase() })
CardFindOne(cardUID) ==
    IF toUpperCase(cardUID) \in DOMAIN cards
    THEN cards[toUpperCase(cardUID)]
    ELSE NoCard

\* the response of a tap that was recorded: the card's data and, when the
\* card has a profile, the redirect URL
Placeholder == "https://example.com"

TapResponse(card) ==
    [status |-> 200, success |-> TRUE, error |-> "none",
     tapCount |-> card.tapCount, hasProfile |-> card.profile # Null,
     redirectUrl |-> IF card.profile # Null THEN Placeholder ELSE "none"]

ErrorResponse(status, error) ==
    [NoResponse EXCEPT !.status = status, !.error = error]

\* the two refusals: no card of that UID, a card that is not activated
TapRefusal_notFound(card) == ErrorResponse(404, "Card not found")

TapRefusal(card) ==
    IF card = NoCard THEN ErrorResponse(404, "Card not found")
    ELSE ErrorResponse(400, "Card not activated")

\* GET /tap/:cardUID up to `await card.recordTap()`: the lookup and the two
\* refusals
TapFind(r, cardUID, context) ==
    /\ requests[r].pc = "idle"
    /\ LET card == CardFindOne(cardUID)
           req == [requests[r] EXCEPT !.cardUID = toUpperCase(cardUID),
                                      !.context = context]
       IN  requests' = [requests EXCEPT ![r] =
              IF card = NoCard \/ ~card.isActivated
              THEN [req EXCEPT !.pc = "done", !.response = TapRefusal(card)]
              ELSE [req EXCEPT !.pc = "recordTap", !.card = card]]
    /\ UNCHANGED <<cards, resolution>>

\* Card.recordTap on the document the request loaded, the pre-save hook that
\* copies a modified tapCount into analytics.totalTaps, the save of the
\* modified paths, and the response
recordTap(card, now) ==
    [card EXCEPT !.tapCount = card.tapCount + 1,
                 !.lastTapped = now,
                 !.totalTaps = card.tapCount + 1]

\* variant: the save writes the whole document the request loaded
TapRecord_wholeDocument(r) ==
    /\ requests[r].pc = "recordTap"
    /\ LET card == recordTap(requests[r].card, requests[r].context.timestamp)
       IN  /\ cards' = [cards EXCEPT ![requests[r].cardUID] = card]
           /\ requests' = [requests EXCEPT ![r] =
                  [@ EXCEPT !.pc = "done", !.card = card,
                            !.response = TapResponse(card)]]
    /\ UNCHANGED resolution

TapRecord(r) ==
    /\ requests[r].pc = "recordTap"
    /\ LET card == recordTap(requests[r].card, requests[r].context.timestamp)
       IN  /\ cards' = [cards EXCEPT ![requests[r].cardUID] =
                  [@ EXCEPT !.tapCount = card.tapCount,
                            !.lastTapped = card.lastTapped,
                            !.totalTaps = card.totalTaps]]
           /\ requests' = [requests EXCEPT ![r] =
                  [@ EXCEPT !.pc = "done", !.card = card,
                            !.response = TapResponse(card)]]
    /\ UNCHANGED resolution

\* the save rejects: the document in memory is changed, the stored card is
\* not, and the error goes to the error handler
TapRecordFails(r) ==
    /\ requests[r].pc = "recordTap"
    /\ LET card == recordTap(requests[r].card, requests[r].context.timestamp)
       IN  requests' = [requests EXCEPT ![r] =
              [@ EXCEPT !.pc = "done", !.card = card,
                        !.response = ErrorResponse(500, "Server Error")]]
    /\ UNCHANGED <<cards, resolution>>

\* the profile that cards refer to, and the contexts of the scans
TapProfiles ==
    {EmptyProfile,
     [EmptyProfile EXCEPT !.redirectUrl = Placeholder],
     [EmptyProfile EXCEPT
        !.redirectType = "geo-based",
        !.geoBasedRedirects =
            <<GeoRule(<<US, Undefined, Undefined, "https://us.example">>,
                      TRUE, 1)>>]}

TapContexts ==
    {Context(At(3, 10, 0), [NoLocation EXCEPT !.country = US],
             MobileCapital, Undefined),
     Context(At(6, 10, 0), NoLocation, Desktop, Undefined)}

InitialCards ==
    {NewCard("unassigned"), NewCard("ready"),
     ActivatedCard("user1", Null), ActivatedCard("user1", "profile1")}

Init ==
    /\ cards \in [CardUIDs -> InitialCards]
    /\ requests = [r \in ReqIds |-> IdleRequest]
    /\ profile \in TapProfiles
    /\ serverTz = "UTC"
    /\ ctx = Context(At(3, 10, 0), NoLocation, Undefined, Undefined)
    /\ call = "none"
    /\ selected = 0
    /\ url = "none"

Next ==
    \/ \E r \in ReqIds, cardUID \in ScannedUIDs, context \in TapContexts :
          TapFind(r, cardUID, context)
    \/ \E r \in ReqIds : TapRecord(r)
    \/ \E r \in ReqIds : TapRecordFails(r)

Spec == Init /\ [][Next]_vars

\* C1: for an activated card that has a profile, the destination URL the tap
\* endpoint returns is the URL getRedirectUrl returns for the card's profile
\* and the tap's context.
C1_TapReturnsResolvedUrl ==
    \A r \in ReqIds :
        /\ requests[r].pc = "done"
        /\ requests[r].response.success
        /\ requests[r].card.profile # Null
        => requests[r].response.redirectUrl
              = getRedirectUrl(profile, requests[r].context)

\* ------------------------------------------------------------------------
\* Calls of the profile's methods
\* ------------------------------------------------------------------------
CallGetRedirectUrl ==
    /\ call' = "getRedirectUrl"
    /\ url' = getRedirectUrl(profile, ctx)
    /\ selected' = 0
    /\ UNCHANGED <<cards, requests, profile, serverTz, ctx>>

CallGetActiveTimeBasedRedirect ==
    /\ call' = "getActiveTimeBasedRedirect"
    /\ selected' = getActiveTimeBasedRedirect(profile, ctx.timestamp)
    /\ url' = "none"
    /\ UNCHANGED <<cards, requests, profile, serverTz, ctx>>

\* variant: the rule list itself is sorted, not the array filter returns
CallGetActiveGeoBasedRedirect_inPlace ==
    /\ call' = "getActiveGeoBasedRedirect"
    /\ selected' = getActiveGeoBasedRedirect(profile, ctx.location)
    /\ url' = "none"
    /\ LET list == profile.geoBasedRedirects
           sorted == SortByPriority(Indexes(list), list)
       IN  profile' = [profile EXCEPT !.geoBasedRedirects =
                          [k \in 1..Len(list) |-> list[sorted[k]]]]
    /\ UNCHANGED <<cards, requests, serverTz, ctx>>

CallGetActiveGeoBasedRedirect ==
    /\ call' = "getActiveGeoBasedRedirect"
    /\ selected' = getActiveGeoBasedRedirect(profile, ctx.location)
    /\ url' = "none"
    /\ UNCHANGED <<cards, requests, profile, serverTz, ctx>>

CallGetActiveConditionalRedirect ==
    /\ call' = "getActiveConditionalRedirect"
    /\ selected' = getActiveConditionalRedirect(profile, ctx)
    /\ url' = "none"
    /\ UNCHANGED <<cards, requests, profile, serverTz, ctx>>

\* ------------------------------------------------------------------------
\* Time-based profiles
\* ------------------------------------------------------------------------
InitTime ==
    /\ \E rules \in SeqsUpTo(TimeRuleSet, MaxTimeRules) :
          profile = [EmptyProfile EXCEPT !.redirectType = "time-based",
                                         !.timeBasedRedirects = rules]
    /\ serverTz \in Zones
    /\ \E t \in TimeInstants :
          ctx = Context(t, NoLocation, Undefined, Undefined)
    /\ call = "none"
    /\ selected = 0
    /\ url = "none"
    /\ NoTaps

NextTime == CallGetRedirectUrl \/ CallGetActiveTimeBasedRedirect

SpecTime == InitTime /\ [][NextTime]_vars

\* ------------------------------------------------------------------------
\* Properties of time-based selection
\* ------------------------------------------------------------------------
DigitValue(c) == (CHOOSE n \in 1..10 : Digits[n] = c) - 1

\* the minute of the day that a schema-valid time string names
MinuteOfDay(s) ==
    IF Len(s) = 5
    THEN (DigitValue(s[1]) * 10 + DigitValue(s[2])) * 60
            + DigitValue(s[4]) * 10 + DigitValue(s[5])
    ELSE DigitValue(s[1]) * 60 + DigitValue(s[3]) * 10 + DigitValue(s[4])

\* the active time rules the find callback accepts at the server's local time
TimeCandidates ==
    {i \in DOMAIN profile.timeBasedRedirects :
        /\ profile.timeBasedRedirects[i].active
        /\ TimeRuleMatches(profile.timeBasedRedirects[i],
                           getDay(ctx.timestamp), CurrentTime(ctx.timestamp))}

First(S) == IF S = {} THEN 0 ELSE CHOOSE i \in S : \A j \in S : i <= j

\* C6: a time rule matches a tap iff it is active, its daysOfWeek is empty or
\* holds the tap's day, and the tap's minute of the day lies in
\* [startTime, endTime], both bounds included: the selector returns a rule
\* iff some rule of the list matches in this sense, and the rule it returns
\* matches in this sense.
NumericTimeMatch(rule, timestamp) ==
    /\ rule.active
    /\ Len(rule.daysOfWeek) = 0 \/ Includes(rule.daysOfWeek, getDay(timestamp))
    /\ MinuteOfDay(rule.startTime)
          <= getHours(timestamp) * 60 + getMinutes(timestamp)
    /\ getHours(timestamp) * 60 + getMinutes(timestamp)
          <= MinuteOfDay(rule.endTime)

C6_TimeMatchIsNumericRange ==
    call = "getActiveTimeBasedRedirect" =>
        LET list == profile.timeBasedRedirects
        IN  /\ selected # 0 <=>
                  \E i \in DOMAIN list : NumericTimeMatch(list[i], ctx.timestamp)
            /\ selected # 0 => NumericTimeMatch(list[selected], ctx.timestamp)

\* C7: the day and time a time rule is tested against are those of the tap
\* instant in the rule's own timezone: the rule returned is the first active
\* rule whose days and range hold the instant as localized to that rule's zone.
ZoneDay(timestamp, tz) == LocalMinute(timestamp, tz) \div (24 * 60)
ZoneTime(timestamp, tz) ==
    PadStart2(NumToString((LocalMinute(timestamp, tz) % (24 * 60)) \div 60))
        \o <<":">> \o PadStart2(NumToString(LocalMinute(timestamp, tz) % 60))

C7_TimeRuleUsesOwnTimezone ==
    call = "getActiveTimeBasedRedirect" =>
        LET list == profile.timeBasedRedirects
        IN  selected = First({i \in DOMAIN list :
                    /\ list[i].active
                    /\ TimeRuleMatches(list[i],
                                       ZoneDay(ctx.timestamp, list[i].timezone),
                                       ZoneTime(ctx.timestamp, list[i].timezone))})

\* C8: time rules have no priority: the selector returns the first rule, in
\* the list's order, among the active rules that match, whatever follows it.
C8_TimeFirstDeclaredWins ==
    call = "getActiveTimeBasedRedirect" => selected = First(TimeCandidates)

C8_Witness ==
    /\ call = "getActiveTimeBasedRedirect"
    /\ selected # 0
    /\ \E j \in TimeCandidates : j > selected

\* ------------------------------------------------------------------------
\* Geo-based and conditional profiles
\* ------------------------------------------------------------------------
InitGeo ==
    /\ \E rules \in SeqsUpTo(GeoRuleSet, MaxGeoRules) :
          profile = [EmptyProfile EXCEPT !.redirectType = "geo-based",
                                         !.geoBasedRedirects = rules]
    /\ serverTz = "UTC"
    /\ \E l \in Locations : ctx = Context(At(3, 10, 0), l, Undefined, Undefined)
    /\ call = "none"
    /\ selected = 0
    /\ url = "none"
    /\ NoTaps

InitConditional ==
    /\ \E rules \in SeqsUpTo(ConditionalRuleSet, MaxCondRules) :
          profile = [EmptyProfile EXCEPT !.redirectType = "conditional",
                                         !.conditionalRedirects = rules]
    /\ serverTz = "UTC"
    /\ \E d \in Devices, u \in UserAgents :
          ctx = Context(At(3, 10, 0), NoLocation, d, u)
    /\ call = "none"
    /\ selected = 0
    /\ url = "none"
    /\ NoTaps

InitPriority == InitGeo \/ InitConditional

NextPriority ==
    \/ CallGetRedirectUrl
    \/ CallGetActiveGeoBasedRedirect
    \/ CallGetActiveConditionalRedirect

SpecPriority == InitPriority /\ [][NextPriority]_vars

\* ------------------------------------------------------------------------
\* Properties of geo-based and conditional selection
\* ------------------------------------------------------------------------
\* the active rules of a list that the find callback accepts
GeoCandidates ==
    {i \in DOMAIN profile.geoBasedRedirects :
        /\ profile.geoBasedRedirects[i].active
        /\ GeoRuleMatches(profile.geoBasedRedirects[i], ctx.location)}

ConditionalCandidates ==
    {i \in DOMAIN profile.conditionalRedirects :
        /\ profile.conditionalRedirects[i].active
        /\ ConditionalRuleMatches(profile.conditionalRedirects[i], ctx)}

\* the candidate of the highest priority, the earliest declared among equals
Best(S, list) ==
    IF S = {} THEN 0
    ELSE CHOOSE i \in S :
            \A j \in S : \/ list[i].priority > list[j].priority
                         \/ list[i].priority = list[j].priority /\ i <= j

\* C5: for geo and conditional rules the selector returns, among the active
\* rules that match the context, one of the highest priority, and among
\* several of that priority the one declared earliest; every call with the
\* same list and context returns that rule.
C5_HighestPriorityEarliestDeclared ==
    /\ call = "getActiveGeoBasedRedirect" =>
          selected = Best(GeoCandidates, profile.geoBasedRedirects)
    /\ call = "getActiveConditionalRedirect" =>
          selected = Best(ConditionalCandidates, profile.conditionalRedirects)

C5_Witness ==
    /\ call = "getActiveGeoBasedRedirect"
    /\ selected # 0
    /\ \E j \in GeoCandidates :
          /\ j > selected
          /\ profile.geoBasedRedirects[j].priority
                = profile.geoBasedRedirects[selected].priority
          /\ profile.geoBasedRedirects[j].url
                # profile.geoBasedRedirects[selected].url

\* C9: a geo rule matches a visitor location iff it is active and each of
\* country, region and city that it sets equals, case-sensitively, the same
\* field of the location; a rule that sets none matches every visitor.  The
\* selector returns a rule iff some rule matches in this sense, and the rule
\* it returns matches in this sense.
GeoFields == {"country", "region", "city"}

GeoMatch(rule, location) ==
    /\ rule.active
    /\ \A f \in GeoFields : Truthy(rule[f]) => rule[f] = location[f]

C9_GeoMatchIsFieldEquality ==
    call = "getActiveGeoBasedRedirect" =>
        LET list == profile.geoBasedRedirects
        IN  /\ selected # 0 <=> \E i \in DOMAIN list : GeoMatch(list[i], ctx.location)
            /\ selected # 0 => GeoMatch(list[selected], ctx.location)
            /\ (\E i \in DOMAIN list :
                    /\ list[i].active
                    /\ \A f \in GeoFields : ~Truthy(list[i][f])) => selected # 0

C9_Witness ==
    /\ call = "getActiveGeoBasedRedirect"
    /\ selected # 0
    /\ \A f \in GeoFields : ~Truthy(profile.geoBasedRedirects[selected][f])
    /\ ctx.location.country = <<"u", "s">>
    /\ \E i \in DOMAIN profile.geoBasedRedirects :
          /\ profile.geoBasedRedirects[i].active
          /\ profile.geoBasedRedirects[i].country = US
          /\ profile.geoBasedRedirects[i].priority
                > profile.geoBasedRedirects[selected].priority

\* C10: a conditional rule with operator equals, contains, starts-with or
\* ends-with matches iff it is active and the operator holds between the
\* client signal and the rule value, letter case ignored; {device equals
\* 'mobile'} sends device 'Mobile' to the rule's url and 'desktop' to the
\* default url.
SameLetter(c, d) ==
    \/ c = d
    \/ \E n \in 1..Len(UpperCase) : {c, d} = {UpperCase[n], LowerCase[n]}

EqualIgnoringCase(a, b) ==
    Len(a) = Len(b) /\ \A k \in 1..Len(a) : SameLetter(a[k], b[k])

OperatorHolds(operator, signal, value) ==
    CASE operator = "equals" -> EqualIgnoringCase(signal, value)
      [] operator = "contains" ->
            \E k \in 0..(Len(signal) - Len(value)) :
                EqualIgnoringCase(SubSeq(signal, k + 1, k + Len(value)), value)
      [] operator = "starts-with" ->
            /\ Len(value) <= Len(signal)
            /\ EqualIgnoringCase(SubSeq(signal, 1, Len(value)), value)
      [] operator = "ends-with" ->
            /\ Len(value) <= Len(signal)
            /\ EqualIgnoringCase(
                  SubSeq(signal, Len(signal) - Len(value) + 1, Len(signal)),
                  value)

ConditionalMatch(rule, context) ==
    /\ rule.active
    /\ OperatorHolds(rule.operator,
                     IF Truthy(Signal(context, rule.condition))
                     THEN Signal(context, rule.condition) ELSE <<>>,
                     rule.value)

C10_ConditionalMatchIgnoresCase ==
    LET list == profile.conditionalRedirects
        simple == \A i \in DOMAIN list : list[i].operator \in Operators
        scenario == <<ConditionalRule("device", "equals", Mobile, TRUE, 1)>>
    IN  /\ call = "getActiveConditionalRedirect" /\ simple =>
              /\ selected # 0 <=> \E i \in DOMAIN list : ConditionalMatch(list[i], ctx)
              /\ selected # 0 => ConditionalMatch(list[selected], ctx)
        /\ /\ call = "getRedirectUrl"
           /\ profile.redirectType = "conditional"
           /\ list = scenario
           => /\ ctx.device = MobileCapital => url = "https://m.example"
              /\ ctx.device = Desktop => url = profile.redirectUrl

C10_Witness ==
    /\ call = "getRedirectUrl"
    /\ profile.redirectType = "conditional"
    /\ profile.conditionalRedirects
          = <<ConditionalRule("device", "equals", Mobile, TRUE, 1)>>
    /\ ctx.device = MobileCapital
    /\ url = "https://m.example"

\* ------------------------------------------------------------------------
\* Profiles of every redirect type with rules of every kind
\* ------------------------------------------------------------------------
\* per kind one rule that matches the first context below, active or not
MixedTimeRules ==
    {[startTime |-> T0900, endTime |-> T1700, daysOfWeek |-> <<>>,
      url |-> IF a THEN "https://time.example" ELSE "https://time-off.example",
      active |-> a, timezone |-> "UTC"] : a \in BOOLEAN}

MixedGeoRules ==
    {[country |-> US, region |-> Undefined, city |-> Undefined,
      url |-> IF a THEN "https://geo.example" ELSE "https://geo-off.example",
      active |-> a, priority |-> 1] : a \in BOOLEAN}

MixedConditionalRules ==
    {[condition |-> "device", operator |-> "equals", value |-> Mobile,
      url |-> IF a THEN "https://cond.example" ELSE "https://cond-off.example",
      active |-> a, priority |-> 1] : a \in BOOLEAN}

\* contexts that every rule above matches, that none matches, that the time
\* rule alone matches, and that the time rule alone does not match
MixedContexts ==
    {Context(At(3, 10, 0), [NoLocation EXCEPT !.country = US],
             MobileCapital, Undefined),
     Context(At(3, 21, 0), NoLocation, Desktop, Undefined),
     Context(At(3, 10, 0), NoLocation, Desktop, Undefined),
     Context(At(3, 21, 0), [NoLocation EXCEPT !.country = US],
             MobileCapital, Undefined)}

RedirectTypes == {"static", "time-based", "geo-based", "conditional"}

InitMixed ==
    /\ \E type \in RedirectTypes,
          t \in SeqsUpTo(MixedTimeRules, MaxTimeRules),
          g \in SeqsUpTo(MixedGeoRules, MaxGeoRules),
          c \in SeqsUpTo(MixedConditionalRules, MaxCondRules) :
          profile = [redirectType |-> type,
                     redirectUrl |-> "https://default.example",
                     timeBasedRedirects |-> t,
                     geoBasedRedirects |-> g,
                     conditionalRedirects |-> c]
    /\ serverTz = "UTC"
    /\ ctx \in MixedContexts
    /\ call = "none"
    /\ selected = 0
    /\ url = "none"
    /\ NoTaps

NextMixed == CallGetRedirectUrl

SpecResolve == InitMixed /\ [][NextMixed]_vars

\* ------------------------------------------------------------------------
\* Properties of getRedirectUrl
\* ------------------------------------------------------------------------
\* C2: a profile whose redirect type is static resolves to its default URL,
\* for every context and whatever its time, geo and conditional rules are.
C2_StaticReturnsDefaultUrl ==
    call = "getRedirectUrl" /\ profile.redirectType = "static" =>
        url = profile.redirectUrl

C2_Witness ==
    /\ call = "getRedirectUrl"
    /\ profile.redirectType = "static"
    /\ TimeCandidates # {}
    /\ GeoCandidates # {}
    /\ ConditionalCandidates # {}
    /\ url = profile.redirectUrl

\* the rule list of the profile's redirect type, the rule the selector
\* returns from it, and the active rules of it that match the context
StrategyList ==
    CASE profile.redirectType = "time-based" -> profile.timeBasedRedirects
      [] profile.redirectType = "geo-based" -> profile.geoBasedRedirects
      [] profile.redirectType = "conditional" -> profile.conditionalRedirects
      [] OTHER -> <<>>

StrategySelection ==
    CASE profile.redirectType = "time-based" ->
            getActiveTimeBasedRedirect(profile, ctx.timestamp)
      [] profile.redirectType = "geo-based" ->
            getActiveGeoBasedRedirect(profile, ctx.location)
      [] profile.redirectType = "conditional" ->
            getActiveConditionalRedirect(profile, ctx)
      [] OTHER -> 0

StrategyCandidates ==
    CASE profile.redirectType = "time-based" -> TimeCandidates
      [] profile.redirectType = "geo-based" -> GeoCandidates
      [] profile.redirectType = "conditional" -> ConditionalCandidates
      [] OTHER -> {}

\* C3: under a redirect type other than static, getRedirectUrl returns the
\* url of the rule the selector chooses from the type's list, and the default
\* URL when no active rule of that list matches or the list is empty; it
\* always returns a URL.
C3_SelectedRuleUrlOrDefault ==
    call = "getRedirectUrl" /\ profile.redirectType # "static" =>
        /\ StrategySelection # 0 => url = StrategyList[StrategySelection].url
        /\ StrategyCandidates = {} => url = profile.redirectUrl
        /\ url \in {profile.redirectUrl}
                      \cup {StrategyList[i].url : i \in DOMAIN StrategyList}

C3_Witness ==
    /\ call = "getRedirectUrl"
    /\ profile.redirectType # "static"
    /\ StrategyList # <<>>
    /\ StrategyCandidates = {}
    /\ url = profile.redirectUrl

\* C4: one resolution evaluates the rule list of the profile's redirect type
\* alone: the URL returned is the default URL or the url of a rule of that
\* list, also when an active rule of another kind matches the context.
C4_OnlyOwnRuleListEvaluated ==
    call = "getRedirectUrl" =>
        url \in {profile.redirectUrl}
                   \cup {StrategyList[i].url : i \in DOMAIN StrategyList}

C4_Witness ==
    /\ call = "getRedirectUrl"
    /\ profile.redirectType = "geo-based"
    /\ GeoCandidates = {}
    /\ TimeCandidates # {}
    /\ ConditionalCandidates # {}
    /\ url = profile.redirectUrl

\* ------------------------------------------------------------------------
\* Conditional profiles with regex rules
\* ------------------------------------------------------------------------
\* patterns that compile: ^mob, m.b; patterns that do not: (mob, *
RegexPatterns == {<<"^", "m", "o", "b">>, <<"m", ".", "b">>}
MalformedPatterns == {<<"(", "m", "o", "b">>, <<"*">>}

RegexRule(pattern, active, priority) ==
    [condition |-> "device", operator |-> "regex", value |-> pattern,
     url |-> IF pattern \in MalformedPatterns
             THEN "https://malformed.example" ELSE "https://regex.example",
     active |-> active, priority |-> priority]

RegexRuleSet ==
    {RegexRule(v, TRUE, n) : v \in MalformedPatterns, n \in {1, 2}}
    \cup
    {RegexRule(<<"(", "m", "o", "b">>, FALSE, 2),
     RegexRule(<<"^", "m", "o", "b">>, TRUE, 1),
     RegexRule(<<"^", "m", "o", "b">>, TRUE, 2),
     RegexRule(<<"m", ".", "b">>, TRUE, 1),
     ConditionalRule("device", "equals", Mobile, TRUE, 1),
     ConditionalRule("device", "contains", MOB, TRUE, 2)}

RegexDevices == {Undefined, MobileCapital, Desktop, IMob}

InitRegex ==
    /\ \E rules \in SeqsUpTo(RegexRuleSet, MaxCondRules) :
          profile = [EmptyProfile EXCEPT !.redirectType = "conditional",
                                         !.conditionalRedirects = rules]
    /\ serverTz = "UTC"
    /\ \E d \in RegexDevices : ctx = Context(At(3, 10, 0), NoLocation, d, Undefined)
    /\ call = "none"
    /\ selected = 0
    /\ url = "none"
    /\ NoTaps

NextRegex == CallGetRedirectUrl \/ CallGetActiveConditionalRedirect

SpecRegex == InitRegex /\ [][NextRegex]_vars

\* the regex rules of the profile whose pattern does not compile
MalformedRules ==
    {i \in DOMAIN profile.conditionalRedirects :
        /\ profile.conditionalRedirects[i].operator = "regex"
        /\ RegExpSyntaxError(profile.conditionalRedirects[i].value)}

\* C11: a regex rule whose pattern is malformed never matches and never makes
\* resolution fail: the selector returns the best of the other active rules
\* that match, as if the malformed rules were not in the list, and
\* getRedirectUrl returns that rule's url, or the default URL without one.
C11_MalformedRegexNeverMatches ==
    LET list == profile.conditionalRedirects
        best == Best(ConditionalCandidates \ MalformedRules, list)
    IN  /\ call = "getActiveConditionalRedirect" =>
              selected \notin MalformedRules /\ selected = best
        /\ call = "getRedirectUrl" =>
              url = IF best # 0 THEN list[best].url ELSE profile.redirectUrl

C11_Witness ==
    LET list == profile.conditionalRedirects
    IN  /\ call = "getRedirectUrl"
        /\ \E i \in MalformedRules, j \in DOMAIN list :
              /\ list[i].active
              /\ list[i].priority > list[j].priority
              /\ i < j
              /\ j \notin MalformedRules
              /\ url = list[j].url

\* ------------------------------------------------------------------------
\* Properties of the tap endpoint
\* ------------------------------------------------------------------------
\* the lookup of a request: from idle to its refusal or to recordTap
Lookup(r) == requests[r].pc = "idle" /\ requests'[r].pc # "idle"

NotFound == ErrorResponse(404, "Card not found")
NotActivated == ErrorResponse(400, "Card not activated")

\* C12: a tap on a UID of no card is answered 404 'Card not found' and a tap
\* on a card whose isActivated flag is false is answered 400 'Card not
\* activated'; the two answers differ, neither carries a redirect URL, and
\* the lookup calls no method of the profile.
C12_UnknownAndInactiveCardsRefused ==
    [][\A r \in ReqIds : Lookup(r) =>
          LET cardUID == requests'[r].cardUID
              response == requests'[r].response
          IN  /\ cardUID \notin DOMAIN cards =>
                    requests'[r].pc = "done" /\ response = NotFound
              /\ cardUID \in DOMAIN cards /\ ~cards[cardUID].isActivated =>
                    requests'[r].pc = "done" /\ response = NotActivated
              /\ NotFound.status # NotActivated.status
              /\ NotFound.error # NotActivated.error
              /\ requests'[r].pc = "done" =>
                    ~response.success /\ response.redirectUrl = "none"
              /\ UNCHANGED <<call, selected, url>>]_vars

C12_Witness ==
    \E r, q \in ReqIds :
        /\ requests[r].pc = "done" /\ requests[r].response = NotFound
        /\ requests[q].pc = "done" /\ requests[q].response = NotActivated
        /\ requests[q].cardUID \in DOMAIN cards

\* ------------------------------------------------------------------------
\* Card lifecycle: activation, deactivation, reset, the admin's toggle
\* ------------------------------------------------------------------------
Users == {"user1"}

\* hasFeatureAccess('maxCards') of a user on the free plan
MaxCardsFree == 1

\* Card.countDocuments({ owner: userId })
CountOwned(userId) == Cardinality({u \in CardUIDs : cards[u].owner = userId})

\* Card.activate(userId)
activate(card, userId) ==
    [card EXCEPT !.owner = userId, !.status = "activated", !.isActivated = TRUE]

\* Card.deactivate(): the status alone
deactivate(card) == [card EXCEPT !.status = "suspended"]

\* Card.reset()
reset_unassigned(card) ==
    [card EXCEPT !.owner = Null, !.profile = Null, !.status = "unassigned",
                 !.isActivated = FALSE, !.tapCount = 0, !.lastTapped = NoDate,
                 !.totalTaps = 0]

reset(card) ==
    [card EXCEPT !.owner = Null, !.profile = Null, !.status = "ready",
                 !.isActivated = FALSE, !.tapCount = 0, !.lastTapped = NoDate,
                 !.totalTaps = 0]

\* POST /admin/cards/:id/toggle-status: the flag is flipped, and the status
\* follows it between ready and activated only
toggleStatus(card) ==
    LET isActivated == ~card.isActivated
    IN  [card EXCEPT
            !.isActivated = isActivated,
            !.status = IF isActivated /\ card.status = "ready" THEN "activated"
                       ELSE IF ~isActivated /\ card.status = "activated"
                            THEN "ready"
                       ELSE card.status]

\* POST /api/cards/activate: the card of the activation code, ready and not
\* activated, and the user below the card limit of the plan
ActivateCard(u, userId) ==
    /\ cards[u].status = "ready" /\ ~cards[u].isActivated
    /\ CountOwned(userId) < MaxCardsFree
    /\ cards' = [cards EXCEPT ![u] = activate(@, userId)]
    /\ UNCHANGED <<requests, resolution>>

\* POST /dashboard/activate-card: the card of the activation code, ready
DashboardActivateCard(u, userId) ==
    /\ cards[u].status = "ready"
    /\ cards' = [cards EXCEPT ![u] = activate(@, userId)]
    /\ UNCHANGED <<requests, resolution>>

DeactivateCard(u) ==
    /\ cards' = [cards EXCEPT ![u] = deactivate(@)]
    /\ UNCHANGED <<requests, resolution>>

ResetCard(u) ==
    /\ cards' = [cards EXCEPT ![u] = reset(@)]
    /\ UNCHANGED <<requests, resolution>>

ToggleStatus(u) ==
    /\ cards' = [cards EXCEPT ![u] = toggleStatus(@)]
    /\ UNCHANGED <<requests, resolution>>

\* cards as they are created: by the schema's defaults, or ready with an
\* activation code by the admin's batch
CreatedCards == {NewCard("unassigned"), NewCard("ready")}

LifecycleContext ==
    Context(At(3, 10, 0), NoLocation, MobileCapital, Undefined)

InitLifecycle ==
    /\ cards \in [CardUIDs -> CreatedCards]
    /\ requests = [r \in ReqIds |-> IdleRequest]
    /\ profile = EmptyProfile
    /\ serverTz = "UTC"
    /\ ctx = NoContext
    /\ call = "none"
    /\ selected = 0
    /\ url = "none"

\* either card may be activated; the first is the card that is scanned,
\* deactivated, reset and toggled
NextLifecycle ==
    \/ \E u \in CardUIDs, userId \in Users : ActivateCard(u, userId)
    \/ \E u \in CardUIDs, userId \in Users : DashboardActivateCard(u, userId)
    \/ DeactivateCard(Card0001)
    \/ ResetCard(Card0001)
    \/ ToggleStatus(Card0001)
    \/ \E r \in ReqIds : TapFind(r, Card0001, LifecycleContext)
    \/ \E r \in ReqIds : TapRecord(r)
    \/ \E r \in ReqIds : TapRecordFails(r)

SpecLifecycle == InitLifecycle /\ [][NextLifecycle]_vars

\* C13: after any sequence of activate, deactivate, reset and toggle-status,
\* a tap that finds the card in a status other than 'activated' (unassigned,
\* ready, suspended) is answered 400 'Card not activated': no request that
\* loaded a card in such a status goes on to record the tap.
C13_OnlyActivatedStatusAccepted ==
    \A r \in ReqIds :
        requests[r].pc \in {"recordTap", "done"} /\ requests[r].card # NoCard
            => requests[r].card.status = "activated"

\* ------------------------------------------------------------------------
\* Outcomes of a tap on an activated card
\* ------------------------------------------------------------------------
\* the answer to a tap on a card without a profile: the tap succeeded, the
\* card has no profile, and there is no redirect URL
NoProfileConfigured(response) ==
    /\ response.status = 200
    /\ response.success
    /\ ~response.hasProfile
    /\ response.redirectUrl = "none"

\* C14: a tap that finds an activated card without a profile ends in the
\* outcome 'no profile configured': a success that says the card has no
\* profile and carries no redirect URL; no method of the profile is called.
C14_NoProfileOutcome ==
    \A r \in ReqIds :
        /\ requests[r].pc = "done"
        /\ requests[r].card # NoCard
        /\ requests[r].card.isActivated
        /\ requests[r].card.profile = Null
        => NoProfileConfigured(requests[r].response) /\ call = "none"

\* C15: a failure of the save in recordTap does not change the answer to a
\* tap: a tap that finds an activated card with a profile ends in a success
\* that carries a redirect URL, whether the save succeeds or fails.
C15_RecordFailureNotPropagated ==
    \A r \in ReqIds :
        /\ requests[r].pc = "done"
        /\ requests[r].card # NoCard
        /\ requests[r].card.isActivated
        /\ requests[r].card.profile # Null
        => /\ requests[r].response.success
           /\ requests[r].response.redirectUrl # "none"

\* ------------------------------------------------------------------------
\* Profiles without a default URL
\* ------------------------------------------------------------------------
\* redirectUrl of a document that holds none: undefined
UndefinedUrl == "undefined"

\* documents that were not validated by a save: every redirect type and
\* rule list, and no redirectUrl
InitNoDefault ==
    /\ \E type \in RedirectTypes,
          t \in SeqsUpTo(MixedTimeRules, MaxTimeRules),
          g \in SeqsUpTo(MixedGeoRules, MaxGeoRules),
          c \in SeqsUpTo(MixedConditionalRules, MaxCondRules) :
          profile = [redirectType |-> type,
                     redirectUrl |-> UndefinedUrl,
                     timeBasedRedirects |-> t,
                     geoBasedRedirects |-> g,
                     conditionalRedirects |-> c]
    /\ serverTz = "UTC"
    /\ ctx \in MixedContexts
    /\ call = "none"
    /\ selected = 0
    /\ url = "none"
    /\ NoTaps

SpecNoDefault == InitNoDefault /\ [][NextMixed]_vars

\* C16: getRedirectUrl on a profile that has no default URL reports the
\* error NoDefaultUrl to its caller and returns no value in place of a URL.
C16_NoDefaultUrlReported ==
    call = "getRedirectUrl" /\ profile.redirectUrl = UndefinedUrl =>
        url = "NoDefaultUrl"

\* ------------------------------------------------------------------------
\* Determinism
\* ------------------------------------------------------------------------
\* C17: the outcome of a tap is a function of the card, the profile and the
\* tap's context: two taps that loaded the same card in the same state, with
\* the same context, are answered alike.
C17_SameInputsSameOutcome ==
    \A r, q \in ReqIds :
        /\ requests[r].pc = "done" /\ requests[q].pc = "done"
        /\ requests[r].cardUID = requests[q].cardUID
        /\ requests[r].card = requests[q].card
        /\ requests[r].context = requests[q].context
        => requests[r].response = requests[q].response

\* ------------------------------------------------------------------------
\* The profile under resolution
\* ------------------------------------------------------------------------
\* C18: no call of getRedirectUrl or of a selector changes the profile: its
\* redirect type, its default URL and its three rule lists, elements and
\* order, are after the call what they were before it, so that every call
\* of a sequence returns what it returns on the profile as it was first.
C18_ResolutionLeavesProfileUnchanged ==
    [][/\ profile' = profile
       /\ call' = "getRedirectUrl" => url' = getRedirectUrl(profile, ctx)
       /\ call' = "getActiveGeoBasedRedirect" =>
              selected' = getActiveGeoBasedRedirect(profile, ctx.location)
       /\ call' = "getActiveConditionalRedirect" =>
              selected' = getActiveConditionalRedirect(profile, ctx)]_vars

C18_Witness ==
    /\ call = "getActiveGeoBasedRedirect"
    /\ selected # 0
    /\ \E i, j \in DOMAIN profile.geoBasedRedirects :
          /\ i < j
          /\ profile.geoBasedRedirects[i].active
          /\ profile.geoBasedRedirects[j].active
          /\ profile.geoBasedRedirects[i].priority
                < profile.geoBasedRedirects[j].priority

\* ------------------------------------------------------------------------
\* The card under a tap
\* ------------------------------------------------------------------------
\* a step of a tap request: its lookup, its save, its failed save
TapStep == requests' # requests

Lifecycle(card) ==
    [status |-> card.status, isActivated |-> card.isActivated,
     owner |-> card.owner, profile |-> card.profile]

C20_StringOrderIsMinuteOrder ==
    call = "getActiveTimeBasedRedirect" =>
        \A i \in DOMAIN profile.timeBasedRedirects :
            LET rule == profile.timeBasedRedirects[i]
                minute == getHours(ctx.timestamp) * 60 + getMinutes(ctx.timestamp)
            IN  /\ SchemaTime(rule.startTime) /\ SchemaTime(rule.endTime)
                /\ MinuteOfDay(rule.startTime) <= MinuteOfDay(rule.endTime)
                => (TimeRuleMatches(rule, getDay(ctx.timestamp),
                                    CurrentTime(ctx.timestamp))
                    <=> /\ \/ Len(rule.daysOfWeek) = 0
                           \/ Includes(rule.daysOfWeek, getDay(ctx.timestamp))
                        /\ MinuteOfDay(rule.startTime) <= minute
                        /\ minute <= MinuteOfDay(rule.endTime))

\* ------------------------------------------------------------------------
\* Time rules whose range wraps past midnight
\* ------------------------------------------------------------------------
T0200 == <<"0", "2", ":", "0", "0">>
T1000 == <<"1", "0", ":", "0", "0">>

\* ranges that start later in the day than they end, the hours written in
\* two digits and in one, all accepted by the schema
WrapWindows ==
    {w \in {<<T2200, T0200>>, <<T1700, T0900>>, <<T1000, T900>>} :
        SchemaTime(w[1]) /\ SchemaTime(w[2])}

WrapRuleSet ==
    {[startTime |-> w[1], endTime |-> w[2], daysOfWeek |-> d,
      url |-> "https://night.example", active |-> a, timezone |-> "UTC"] :
        w \in WrapWindows, d \in DaySets, a \in BOOLEAN}

\* instants inside and outside the wrapped ranges
WrapInstants ==
    {At(3, 1, 0), At(3, 2, 0), At(3, 8, 0), At(3, 10, 0), At(3, 11, 0),
     At(3, 16, 0), At(3, 22, 0), At(3, 23, 0), At(6, 23, 0)}

InitWrap ==
    /\ \E rules \in SeqsUpTo(WrapRuleSet, MaxTimeRules) :
          profile = [EmptyProfile EXCEPT !.redirectType = "time-based",
                                         !.timeBasedRedirects = rules]
    /\ serverTz = "UTC"
    /\ \E t \in WrapInstants :
          ctx = Context(t, NoLocation, Undefined, Undefined)
    /\ call = "none"
    /\ selected = 0
    /\ url = "none"
    /\ NoTaps

SpecWrap == InitWrap /\ [][NextTime]_vars

\* C21: a time rule whose startTime is later in the day than its endTime
\* matches at no instant: it does not pass the matcher, the selector does
\* not return it, and getRedirectUrl of a profile of such rules returns the
\* default URL.
C21_WrappedRangeNeverMatches ==
    LET list == profile.timeBasedRedirects
        wraps(rule) ==
            /\ SchemaTime(rule.startTime) /\ SchemaTime(rule.endTime)
            /\ MinuteOfDay(rule.startTime) > MinuteOfDay(rule.endTime)
    IN  /\ call = "getActiveTimeBasedRedirect" =>
              /\ \A i \in DOMAIN list :
                    wraps(list[i]) =>
                        ~TimeRuleMatches(list[i], getDay(ctx.timestamp),
                                         CurrentTime(ctx.timestamp))
              /\ selected # 0 => ~wraps(list[selected])
        /\ call = "getRedirectUrl" /\ (\A i \in DOMAIN list : wraps(list[i])) =>
              url = profile.redirectUrl

\* ------------------------------------------------------------------------
\* Priority and specificity of geo rules
\* ------------------------------------------------------------------------
\* the number of country, region and city that a geo rule sets
Specificity(rule) == Cardinality({f \in GeoFields : Truthy(rule[f])})

\* C22: among the active geo rules that match the visitor, priority alone
\* orders: the selector returns a rule of the highest priority, whether it
\* sets more fields or fewer than the candidates of lower priority (US/CA
\* above US beats it, and US above US/CA beats it).
C22_PriorityNotSpecificity ==
    call = "getActiveGeoBasedRedirect" =>
        LET list == profile.geoBasedRedirects
        IN  /\ GeoCandidates # {} => selected \in GeoCandidates
            /\ \A j \in GeoCandidates :
                  list[selected].priority >= list[j].priority

C22_Witness ==
    LET list == profile.geoBasedRedirects
    IN  /\ call = "getActiveGeoBasedRedirect"
        /\ selected # 0
        /\ list[selected].country = US
        /\ Specificity(list[selected]) = 1
        /\ \E j \in GeoCandidates :
              /\ list[j].country = US /\ list[j].region = CA
              /\ Specificity(list[j]) = 2
              /\ list[j].priority < list[selected].priority

\* C23: when the context holds no country, region or city, no geo rule that
\* sets one of them matches, the selector returns no such rule, and a
\* geo-based profile whose rules all set a field resolves to the default URL.
C23_UnknownLocationFallsToDefault ==
    LET list == profile.geoBasedRedirects
    IN  ctx.location = NoLocation =>
            /\ call = "getActiveGeoBasedRedirect" =>
                  /\ \A i \in DOMAIN list :
                        Specificity(list[i]) > 0 =>
                            ~GeoRuleMatches(list[i], ctx.location)
                  /\ selected # 0 => Specificity(list[selected]) = 0
            /\ /\ call = "getRedirectUrl"
               /\ profile.redirectType = "geo-based"
               /\ \A i \in DOMAIN list : Specificity(list[i]) > 0
               => url = profile.redirectUrl

C23_Witness ==
    LET list == profile.geoBasedRedirects
    IN  /\ call = "getRedirectUrl"
        /\ profile.redirectType = "geo-based"
        /\ ctx.location = NoLocation
        /\ Len(list) > 1
        /\ \A i \in DOMAIN list : list[i].active /\ Specificity(list[i]) > 0
        /\ url = profile.redirectUrl

\* ------------------------------------------------------------------------
\* Inactive rules
\* ------------------------------------------------------------------------
\* the rules of the mixed profiles, the inactive ones above the active ones
\* in priority
PrioritizedGeoRules ==
    {[r EXCEPT !.priority = IF r.active THEN 1 ELSE 2] : r \in MixedGeoRules}

PrioritizedConditionalRules ==
    {[r EXCEPT !.priority = IF r.active THEN 1 ELSE 2] :
        r \in MixedConditionalRules}

\* a context that every rule matches, and one that none matches
ActiveContexts ==
    {Context(At(3, 10, 0), [NoLocation EXCEPT !.country = US],
             MobileCapital, Undefined),
     Context(At(3, 21, 0), NoLocation, Desktop, Undefined)}

InitActive ==
    /\ \E type \in RedirectTypes,
          t \in SeqsUpTo(MixedTimeRules, MaxTimeRules),
          g \in SeqsUpTo(PrioritizedGeoRules, MaxGeoRules),
          c \in SeqsUpTo(PrioritizedConditionalRules, MaxCondRules) :
          profile = [redirectType |-> type,
                     redirectUrl |-> "https://default.example",
                     timeBasedRedirects |-> t,
                     geoBasedRedirects |-> g,
                     conditionalRedirects |-> c]
    /\ serverTz = "UTC"
    /\ ctx \in ActiveContexts
    /\ call = "none"
    /\ selected = 0
    /\ url = "none"
    /\ NoTaps

NextActive ==
    \/ CallGetRedirectUrl
    \/ CallGetActiveTimeBasedRedirect
    \/ CallGetActiveGeoBasedRedirect
    \/ CallGetActiveConditionalRedirect

SpecActive == InitActive /\ [][NextActive]_vars

\* C24: the rule a selector returns is active, and the URL getRedirectUrl
\* returns is the default URL or the url of an active rule of the profile's
\* redirect type: never the url of an inactive rule, whether that rule is
\* the only one that fits the context or the one of the highest priority.
C24_SelectedRuleIsActive ==
    /\ call = "getActiveTimeBasedRedirect" /\ selected # 0 =>
          profile.timeBasedRedirects[selected].active
    /\ call = "getActiveGeoBasedRedirect" /\ selected # 0 =>
          profile.geoBasedRedirects[selected].active
    /\ call = "getActiveConditionalRedirect" /\ selected # 0 =>
          profile.conditionalRedirects[selected].active
    /\ call = "getRedirectUrl" =>
          url \in {profile.redirectUrl}
                     \cup {StrategyList[i].url :
                              i \in {k \in DOMAIN StrategyList :
                                        StrategyList[k].active}}

C24_Witness ==
    LET list == profile.geoBasedRedirects
    IN  /\ call = "getRedirectUrl"
        /\ profile.redirectType = "geo-based"
        /\ \E i, j \in DOMAIN list :
              /\ ~list[i].active
              /\ GeoRuleMatches(list[i], ctx.location)
              /\ list[i].priority > list[j].priority
              /\ list[j].active
              /\ url = list[j].url
              /\ url # list[i].url

\* ------------------------------------------------------------------------
\* The lifecycle status of a card
\* ------------------------------------------------------------------------
\* the place of a status in unassigned -> ready -> activated -> suspended
Rank(status) ==
    CASE status = "unassigned" -> 0
      [] status = "ready" -> 1
      [] status = "activated" -> 2
      [] status = "suspended" -> 3

CompletedTaps(u) ==
    {r \in ReqIds : /\ requests[r].pc = "done"
                    /\ requests[r].response.success
                    /\ requests[r].cardUID = u}

\* C26: under every interleaving of taps on a card, which starts with a tap
\* count of 0, the card's tapCount is the number of taps that completed with
\* success: no increment is lost.
C26_NoTapIncrementLost ==
    \A u \in CardUIDs : cards[u].tapCount = Cardinality(CompletedTaps(u))

\* C27: in every state the card operations reach, the isActivated flag of a
\* card is true iff the card's status is 'activated'.
C27_FlagIffStatusActivated ==
    \A u \in CardUIDs :
        cards[u].isActivated <=> cards[u].status = "activated"

\* ------------------------------------------------------------------------
\* Activation requests, step by step
\* ------------------------------------------------------------------------
\* the users who submit activation codes, all on the free plan
Activators == {"user1", "user2"}

\* Card.findByActivationCode(code), the code being that of card u: the card
\* while it is ready and not activated
findByActivationCode(u) ==
    IF cards[u].status = "ready" /\ ~cards[u].isActivated
    THEN cards[u] ELSE NoCard

ActivationSuccess == [NoResponse EXCEPT !.status = 200, !.success = TRUE]

\* POST /api/cards/activate up to the card count: the lookup by code
ActivateFind(r, u, userId) ==
    /\ requests[r].pc = "idle"
    /\ LET card == findByActivationCode(u)
           req == [requests[r] EXCEPT !.cardUID = u, !.user = userId]
       IN  requests' = [requests EXCEPT ![r] =
              IF card = NoCard
              THEN [req EXCEPT !.pc = "done",
                       !.response = ErrorResponse(404, "Invalid activation code")]
              ELSE [req EXCEPT !.pc = "countDocuments", !.card = card]]
    /\ UNCHANGED <<cards, resolution>>

\* the count of the user's cards against the limit of the plan
ActivateCount(r) ==
    /\ requests[r].pc = "countDocuments"
    /\ requests' = [requests EXCEPT ![r] =
          IF CountOwned(requests[r].user) >= MaxCardsFree
          THEN [@ EXCEPT !.pc = "done",
                         !.response = ErrorResponse(400, "Card limit reached")]
          ELSE [@ EXCEPT !.pc = "activate"]]
    /\ UNCHANGED <<cards, resolution>>

\* card.activate(userId): the save of owner, status and flag, unconditional
ActivateSave(r) ==
    /\ requests[r].pc = "activate"
    /\ cards' = [cards EXCEPT ![requests[r].cardUID] =
                    activate(@, requests[r].user)]
    /\ requests' = [requests EXCEPT ![r] =
          [@ EXCEPT !.pc = "done",
                    !.card = activate(requests[r].card, requests[r].user),
                    !.response = ActivationSuccess]]
    /\ UNCHANGED resolution

\* POST /dashboard/activate-card: the lookup by code and status 'ready'
DashboardFind(r, u, userId) ==
    /\ requests[r].pc = "idle"
    /\ LET req == [requests[r] EXCEPT !.cardUID = u, !.user = userId]
       IN  requests' = [requests EXCEPT ![r] =
              IF cards[u].status # "ready"
              THEN [req EXCEPT !.pc = "done",
                       !.response = ErrorResponse(200, "Invalid activation code or card already activated")]
              ELSE [req EXCEPT !.pc = "dashboardSave", !.card = cards[u]]]
    /\ UNCHANGED <<cards, resolution>>

\* the assignments of the dashboard route and its save
DashboardSave(r) ==
    /\ requests[r].pc = "dashboardSave"
    /\ cards' = [cards EXCEPT ![requests[r].cardUID] =
                    activate(@, requests[r].user)]
    /\ requests' = [requests EXCEPT ![r] =
          [@ EXCEPT !.pc = "done",
                    !.card = activate(requests[r].card, requests[r].user),
                    !.response = [ActivationSuccess EXCEPT !.status = 302]]]
    /\ UNCHANGED resolution

InitActivation ==
    /\ cards = [u \in CardUIDs |-> NewCard("ready")]
    /\ requests = [r \in ReqIds |-> IdleRequest]
    /\ profile = EmptyProfile
    /\ serverTz = "UTC"
    /\ ctx = NoContext
    /\ call = "none"
    /\ selected = 0
    /\ url = "none"

NextActivation ==
    \/ \E r \in ReqIds, u \in CardUIDs, userId \in Activators :
          ActivateFind(r, u, userId)
    \/ \E r \in ReqIds : ActivateCount(r)
    \/ \E r \in ReqIds : ActivateSave(r)
    \/ \E r \in ReqIds, u \in CardUIDs, userId \in Activators :
          DashboardFind(r, u, userId)
    \/ \E r \in ReqIds : DashboardSave(r)

SpecActivation == InitActivation /\ [][NextActivation]_vars

\* the requests to POST /api/cards/activate for the code of card u that
\* were answered with success
Activated(u) ==
    {r \in ReqIds : /\ requests[r].pc = "done"
                    /\ requests[r].response = ActivationSuccess
                    /\ requests[r].user # Null
                    /\ requests[r].cardUID = u}

\* C28: under every interleaving of requests to POST /api/cards/activate at
\* most one request succeeds for the code of a card, and the owner of the
\* card is the user of the request that succeeded.
C28_OneActivationPerCode ==
    \A u \in CardUIDs :
        /\ Cardinality(Activated(u)) <= 1
        /\ \A r \in Activated(u) : cards[u].owner = requests[r].user

\* C29: for a user on the free plan, whose maxCards is finite and does not
\* change, the number of cards the user owns never exceeds maxCards, under
\* every sequence and interleaving of the two activation routes.
C29_CardLimitKept ==
    \A userId \in Activators : CountOwned(userId) <= MaxCardsFree

\* C30: a tap that is refused (404, 400) leaves tapCount and lastTapped of
\* every card as they were, and a tap that is accepted and answered with
\* success raises the tapCount of the tapped card by one and leaves the
\* tapCount of every other card as it was.
C30_RefusedTapsRecordNothing ==
    [][\A r \in ReqIds :
          /\ Lookup(r) /\ requests'[r].pc = "done" =>
                \A u \in CardUIDs :
                    /\ cards'[u].tapCount = cards[u].tapCount
                    /\ cards'[u].lastTapped = cards[u].lastTapped
          /\ /\ requests[r].pc = "recordTap"
             /\ requests'[r].pc = "done"
             /\ requests'[r].response.success
             => \A u \in CardUIDs :
                    cards'[u].tapCount =
                        IF u = requests[r].cardUID
                        THEN cards[u].tapCount + 1
                        ELSE cards[u].tapCount]_vars

====
